---- MODULE Spec2Model ----
(***************************************************************************)
(* Student Expense Tracker (src/app.py): the CSV record store, the         *)
(* load / add / save cycle, the listing filter, the summary aggregation    *)
(* and the two-click "Clear ALL data" control.                             *)
(*                                                                         *)
(* Text is a sequence of one-character strings, so that strip(), lower(),  *)
(* the CSV cell codec and the note search are computed character by        *)
(* character.  A date is the integer yyyymmdd (order-preserving).  An      *)
(* amount is an integer number of quarters (0.25): every such float64 and  *)
(* every sum of them in the modelled range is exact, so float arithmetic   *)
(* on these values is integer arithmetic.                                  *)
(***************************************************************************)
EXTENDS Integers, Sequences, FiniteSets, TLC

VARIABLES
    file,               \* data/expenses.csv: NoFile, or the sequence of its data rows
    confirm_clear,      \* "confirm_clear" in st.session_state
    selected_category,  \* value of the "Filter by category" selectbox
    search_note,        \* value of the "Search in notes" text input
    event,              \* the widget that triggered the last script run
    form,               \* the add-expense form values of the last submitted run
    loaded,             \* df as returned by load_expenses at the top of the last run
    df,                 \* df at the end of the last run
    msg,                \* the message the last run's handler emitted
    filtered,           \* the listing shown by the last run
    total_spent,        \* the "Total spent" metric of the last run
    by_category         \* the "Spend by category" table of the last run

vars == <<file, confirm_clear, selected_category, search_note, event, form,
          loaded, df, msg, filtered, total_spent, by_category>>

\* ---------------------------------------------------------------- bounds
\* Largest number of records the model lets the add form build up.
MaxRows == 2

\* ------------------------------------------------------------------ text
\* The characters of the model in code-point order.
Ascii ==
    <<" ", "#", "*", "-", ".", "/",
      "0", "1", "2", "3", "4", "5", "6", "7", "8", "9", "<", ">",
      "A", "B", "C", "D", "E", "F", "G", "H", "I", "J", "K", "L", "M",
      "N", "O", "P", "Q", "R", "S", "T", "U", "V", "W", "X", "Y", "Z",
      "a", "b", "c", "d", "e", "f", "g", "h", "i", "j", "k", "l", "m",
      "n", "o", "p", "q", "r", "s", "t", "u", "v", "w", "x", "y", "z">>

Ord(c) == CHOOSE i \in 1..Len(Ascii) : Ascii[i] = c

Digits == <<"0", "1", "2", "3", "4", "5", "6", "7", "8", "9">>

IsDigit(c) == \E i \in 1..10 : Digits[i] = c

DigitVal(c) == (CHOOSE i \in 1..10 : Digits[i] = c) - 1

IsUpper(c) == Ord("A") <= Ord(c) /\ Ord(c) <= Ord("Z")

\* str.lower() on one character
LowerChar(c) == IF IsUpper(c) THEN Ascii[Ord(c) + (Ord("a") - Ord("A"))] ELSE c

\* str.lower()
Lower(s) == [i \in 1..Len(s) |-> LowerChar(s[i])]

IsSpace(c) == c = " "

RECURSIVE LStrip(_)
LStrip(s) == IF s # <<>> /\ IsSpace(s[1]) THEN LStrip(Tail(s)) ELSE s

RECURSIVE RStrip(_)
RStrip(s) ==
    IF s # <<>> /\ IsSpace(s[Len(s)]) THEN RStrip(SubSeq(s, 1, Len(s) - 1)) ELSE s

\* str.strip()
Strip(s) == RStrip(LStrip(s))

\* Python's < on str: lexicographic by code point
RECURSIVE StrLess(_, _)
StrLess(a, b) ==
    IF b = <<>> THEN FALSE
    ELSE IF a = <<>> THEN TRUE
    ELSE IF a[1] # b[1] THEN Ord(a[1]) < Ord(b[1])
    ELSE StrLess(Tail(a), Tail(b))

\* str(n) for an int n >= 0
RECURSIVE NatStr(_)
NatStr(n) == IF n < 10 THEN <<Digits[n + 1]>> ELSE NatStr(n \div 10) \o <<Digits[(n % 10) + 1]>>

AllDigits(s) == s # <<>> /\ \A i \in 1..Len(s) : IsDigit(s[i])

\* int(s) for a string of digits
RECURSIVE DigitsVal(_)
DigitsVal(s) ==
    IF s = <<>> THEN 0 ELSE DigitsVal(SubSeq(s, 1, Len(s) - 1)) * 10 + DigitVal(s[Len(s)])

\* ------------------------------------------------------------- constants
\* CSV_PATH does not exist
NoFile == [exists |-> FALSE, rows |-> <<>>]

\* CSV_PATH holds a header line and these data rows
FileOf(rows) == [exists |-> TRUE, rows |-> rows]

\* CATEGORIES
CATEGORIES ==
    <<<<"F", "o", "o", "d">>,
      <<"R", "e", "n", "t">>,
      <<"T", "r", "a", "n", "s", "p", "o", "r", "t">>,
      <<"G", "r", "o", "c", "e", "r", "i", "e", "s">>,
      <<"E", "n", "t", "e", "r", "t", "a", "i", "n", "m", "e", "n", "t">>,
      <<"S", "h", "o", "p", "p", "i", "n", "g">>,
      <<"H", "e", "a", "l", "t", "h">>,
      <<"O", "t", "h", "e", "r">>>>

\* the "All" entry the filter selectbox puts before CATEGORIES
All == <<"A", "l", "l">>

\* ------------------------------------------------------------ CSV codec
\* str(date): ISO yyyy-mm-dd
DateStr(d) ==
    LET s == NatStr(d)
    IN  SubSeq(s, 1, 4) \o <<"-">> \o SubSeq(s, 5, 6) \o <<"-">> \o SubSeq(s, 7, 8)

\* repr(float) of q quarters, as to_csv writes it
FloatRepr(q) ==
    LET a == IF q < 0 THEN -q ELSE q
        frac == CASE a % 4 = 0 -> <<"0">>
                  [] a % 4 = 1 -> <<"2", "5">>
                  [] a % 4 = 2 -> <<"5">>
                  [] a % 4 = 3 -> <<"7", "5">>
    IN  (IF q < 0 THEN <<"-">> ELSE <<>>) \o NatStr(a \div 4) \o <<".">> \o frac

\* str(int)
IntStr(n) == IF n < 0 THEN <<"-">> \o NatStr(-n) ELSE NatStr(n)

\* save_expenses: one row of text cells per record, the file overwritten in full
Save(d) ==
    FileOf([i \in 1..Len(d) |->
               [date     |-> DateStr(d[i].date),
                category |-> d[i].category,
                amount   |-> FloatRepr(d[i].amount),
                note     |-> d[i].note]])

\* the cell texts pd.read_csv reads as missing (its default na_values)
NaValues ==
    {<<>>,
     <<"#", "N", "/", "A">>,
     <<"#", "N", "/", "A", " ", "N", "/", "A">>,
     <<"#", "N", "A">>,
     <<"-", "1", ".", "#", "I", "N", "D">>,
     <<"-", "1", ".", "#", "Q", "N", "A", "N">>,
     <<"-", "N", "a", "N">>,
     <<"-", "n", "a", "n">>,
     <<"1", ".", "#", "I", "N", "D">>,
     <<"1", ".", "#", "Q", "N", "A", "N">>,
     <<"<", "N", "A", ">">>,
     <<"N", "/", "A">>,
     <<"N", "A">>,
     <<"N", "U", "L", "L">>,
     <<"N", "a", "N">>,
     <<"n", "/", "a">>,
     <<"n", "a", "n">>,
     <<"n", "u", "l", "l">>}

IsNa(cell) == cell \in NaValues

Unsigned(cell) == IF cell # <<>> /\ cell[1] = "-" THEN Tail(cell) ELSE cell

Sign(cell) == IF cell # <<>> /\ cell[1] = "-" THEN -1 ELSE 1

\* a cell the CSV parser reads as an integer
IsIntLit(cell) == AllDigits(Unsigned(cell))

DotAt(s) == {i \in 1..Len(s) : s[i] = "."}

\* the fraction digits of a decimal literal as a number of quarters; {} when the
\* fraction is not a multiple of 0.25 (such amounts are outside the model)
RECURSIVE FracQuarters(_)
FracQuarters(f) ==
    IF f # <<>> /\ f[Len(f)] = "0" THEN FracQuarters(SubSeq(f, 1, Len(f) - 1))
    ELSE CASE f = <<>> -> {0}
           [] f = <<"2", "5">> -> {1}
           [] f = <<"5">> -> {2}
           [] f = <<"7", "5">> -> {3}
           [] OTHER -> {}

\* the number a cell denotes, in quarters: {q}, or {} when the text is not numeric
ParseNumber(cell) ==
    LET u == Unsigned(cell)
        dots == DotAt(u)
    IN  IF AllDigits(u) THEN {Sign(cell) * 4 * DigitsVal(u)}
        ELSE IF Cardinality(dots) # 1 THEN {}
        ELSE LET k == CHOOSE i \in dots : TRUE
                 ip == SubSeq(u, 1, k - 1)
                 fp == SubSeq(u, k + 1, Len(u))
             IN  IF AllDigits(ip) /\ AllDigits(fp)
                 THEN {Sign(cell) * (4 * DigitsVal(ip) + f) : f \in FracQuarters(fp)}
                 ELSE {}

\* the dtype pd.read_csv infers for a column from its cells that are not missing
ColumnKind(cells, present) ==
    IF \A i \in present : IsIntLit(cells[i])
    THEN (IF present = 1..Len(cells) /\ present # {} THEN "int" ELSE "float")
    ELSE IF \A i \in present : ParseNumber(cells[i]) # {}
    THEN "float"
    ELSE "str"

\* one column as held in the inferred dtype
TypedColumn(cells, present, kind) ==
    [i \in 1..Len(cells) |->
        IF i \notin present THEN [k |-> "nan"]
        ELSE CASE kind = "int" ->
                    [k |-> "int", v |-> Sign(cells[i]) * DigitsVal(Unsigned(cells[i]))]
               [] kind = "float" ->
                    [k |-> "float", v |-> CHOOSE q \in ParseNumber(cells[i]) : TRUE]
               [] kind = "str" -> [k |-> "str", v |-> cells[i]]]

ColumnOf(cells, present) == TypedColumn(cells, present, ColumnKind(cells, present))

\* pd.read_csv on one column
ReadColumn(cells) == ColumnOf(cells, {i \in 1..Len(cells) : ~IsNa(cells[i])})

\* str(x) of a column value, as .astype(str) applies it
AsStr(x) ==
    CASE x.k = "nan" -> <<"n", "a", "n">>
      [] x.k = "int" -> IntStr(x.v)
      [] x.k = "float" -> FloatRepr(x.v)
      [] x.k = "str" -> x.v

\* .fillna("")
FillNa(x) == IF x.k = "nan" THEN [k |-> "str", v |-> <<>>] ELSE x

IsLeap(y) == (y % 4 = 0 /\ y % 100 # 0) \/ y % 400 = 0

DaysIn(y, m) ==
    IF m = 2 THEN (IF IsLeap(y) THEN 29 ELSE 28)
    ELSE IF m \in {4, 6, 9, 11} THEN 30 ELSE 31

\* the calendar date an ISO yyyy-mm-dd text denotes: {d}, or {} (NaT)
ParseDate(s) ==
    IF Len(s) = 10 /\ s[5] = "-" /\ s[8] = "-"
       /\ AllDigits(SubSeq(s, 1, 4)) /\ AllDigits(SubSeq(s, 6, 7))
       /\ AllDigits(SubSeq(s, 9, 10))
    THEN LET y == DigitsVal(SubSeq(s, 1, 4))
             m == DigitsVal(SubSeq(s, 6, 7))
             d == DigitsVal(SubSeq(s, 9, 10))
         IN  IF y >= 1 /\ m \in 1..12 /\ d \in 1..DaysIn(y, m)
             THEN {y * 10000 + m * 100 + d}
             ELSE {}
    ELSE {}

\* pd.to_datetime(errors="coerce").dt.date on a column of text cells
ToDate(x) ==
    CASE x.k = "nan" -> {}
      [] x.k = "str" -> ParseDate(x.v)

\* pd.to_numeric(errors="coerce")
ToNumeric(x) ==
    CASE x.k = "nan" -> {}
      [] x.k = "int" -> {4 * x.v}
      [] x.k = "float" -> {x.v}
      [] x.k = "str" -> ParseNumber(x.v)

Column(rows, name) == [i \in 1..Len(rows) |-> rows[i][name]]

RECURSIVE DropNaFillsAmount(_)
\* faulty variant: only a missing date drops the row; a missing amount is taken as 0
DropNaFillsAmount(rows) ==
    IF rows = <<>> THEN <<>>
    ELSE LET r == rows[1]
         IN  IF r.date = {} THEN DropNaFillsAmount(Tail(rows))
             ELSE <<[date     |-> CHOOSE d \in r.date : TRUE,
                     category |-> r.category,
                     amount   |-> IF r.amount = {} THEN 0 ELSE CHOOSE a \in r.amount : TRUE,
                     note     |-> r.note]>> \o DropNaFillsAmount(Tail(rows))

RECURSIVE DropNa(_)
\* dropna(subset=["date", "amount"]): the rows whose date and amount are present
DropNa(rows) ==
    IF rows = <<>> THEN <<>>
    ELSE LET r == rows[1]
         IN  IF r.date = {} \/ r.amount = {} THEN DropNa(Tail(rows))
             ELSE <<[date     |-> CHOOSE d \in r.date : TRUE,
                     category |-> r.category,
                     amount   |-> CHOOSE a \in r.amount : TRUE,
                     note     |-> r.note]>> \o DropNa(Tail(rows))

\* the four columns after the "Clean types" lines
CleanTypes(dates, cats, amts, notes) ==
    [i \in 1..Len(dates) |->
        [date     |-> ToDate(dates[i]),
         category |-> AsStr(cats[i]),
         amount   |-> ToNumeric(amts[i]),
         note     |-> AsStr(FillNa(notes[i]))]]

\* load_expenses
Load(f) ==
    IF ~f.exists THEN <<>>
    ELSE DropNa(CleanTypes(ReadColumn(Column(f.rows, "date")),
                           ReadColumn(Column(f.rows, "category")),
                           ReadColumn(Column(f.rows, "amount")),
                           ReadColumn(Column(f.rows, "note"))))

\* faulty variant: the note is stored as typed, without .strip()
AddExpenseNoStrip(d, expense_date, category, amount, note) ==
    d \o <<[date     |-> expense_date,
            category |-> category,
            amount   |-> amount,
            note     |-> note]>>

\* add_expense
AddExpense(d, expense_date, category, amount, note) ==
    d \o <<[date     |-> expense_date,
            category |-> category,
            amount   |-> amount,
            note     |-> Strip(note)]>>

\* --------------------------------------------------- listing and summary
RECURSIVE InsertByDateDesc(_, _)
InsertByDateDesc(r, sorted) ==
    IF sorted = <<>> THEN <<r>>
    ELSE IF sorted[1].date >= r.date
         THEN <<sorted[1]>> \o InsertByDateDesc(r, Tail(sorted))
         ELSE <<r>> \o sorted

RECURSIVE SortByDateDesc(_)
\* df.sort_values(by="date", ascending=False).reset_index(drop=True); on the object
\* column of dates and at these sizes the sort is an insertion sort, equal dates
\* keeping their order
SortByDateDesc(d) ==
    IF d = <<>> THEN <<>>
    ELSE InsertByDateDesc(d[Len(d)], SortByDateDesc(SubSeq(d, 1, Len(d) - 1)))

\* re.search: the pattern language is literals, "." and a postfix "*"
RECURSIVE MatchHere(_, _)
MatchHere(p, s) ==
    IF p = <<>> THEN TRUE
    ELSE IF Len(p) >= 2 /\ p[2] = "*"
    THEN \E k \in 0..Len(s) :
            /\ \A i \in 1..k : p[1] = "." \/ p[1] = s[i]
            /\ MatchHere(SubSeq(p, 3, Len(p)), SubSeq(s, k + 1, Len(s)))
    ELSE /\ s # <<>>
         /\ p[1] = "." \/ p[1] = s[1]
         /\ MatchHere(Tail(p), Tail(s))

\* Series.str.contains(pat, na=False) on one value: regex=True is the default
StrContains(s, pat) == \E i \in 1..(Len(s) + 1) : MatchHere(pat, SubSeq(s, i, Len(s)))

\* filtered[filtered["category"] == selected_category]
ByCategoryMask(rows, category) ==
    LET Test(r) == r.category = category IN SelectSeq(rows, Test)

\* filtered[filtered["note"].str.lower().str.contains(pat, na=False)]
ByNoteMask(rows, pat) ==
    LET Test(r) == StrContains(Lower(r.note), pat) IN SelectSeq(rows, Test)

\* the listing filter
Filtered(display, category, keyword) ==
    IF Strip(keyword) # <<>>
    THEN ByNoteMask(IF category # All THEN ByCategoryMask(display, category) ELSE display,
                    Lower(Strip(keyword)))
    ELSE IF category # All THEN ByCategoryMask(display, category) ELSE display

RECURSIVE SumAmount(_)
\* Series.sum()
SumAmount(d) == IF d = <<>> THEN 0 ELSE d[1].amount + SumAmount(Tail(d))

\* faulty variant: the total is taken over the filtered listing instead of df
TotalSpentOfListing(d) ==
    SumAmount(Filtered(SortByDateDesc(d), selected_category, search_note))

\* df["amount"].sum()
TotalSpent(d) == SumAmount(d)

RECURSIVE SortKeys(_)
\* the distinct group keys in ascending order (groupby sorts its keys)
SortKeys(keys) ==
    IF keys = {} THEN <<>>
    ELSE LET least == CHOOSE k \in keys : \A o \in keys \ {k} : StrLess(k, o)
         IN  <<least>> \o SortKeys(keys \ {least})

GroupSumsOf(d, keys) ==
    [g \in 1..Len(keys) |->
        [category |-> keys[g], amount |-> SumAmount(ByCategoryMask(d, keys[g]))]]

\* df.groupby("category", as_index=False)["amount"].sum()
GroupSums(d) == GroupSumsOf(d, SortKeys({d[i].category : i \in 1..Len(d)}))

IndexOrders(n) == {p \in [1..n -> 1..n] : \A i, j \in 1..n : i # j => p[i] # p[j]}

\* faulty variant: the table is sorted with the default ascending=True
SortedByAmountAsc(groups) ==
    {[i \in 1..Len(groups) |-> groups[p[i]]] : p \in
        {q \in IndexOrders(Len(groups)) :
            \A i \in 1..(Len(groups) - 1) : groups[q[i]].amount <= groups[q[i + 1]].amount}}

\* .sort_values("amount", ascending=False): the default sort kind is not stable, so
\* every arrangement of the groups with non-increasing totals is a possible result
SortedByAmountDesc(groups) ==
    {[i \in 1..Len(groups) |-> groups[p[i]]] : p \in
        {q \in IndexOrders(Len(groups)) :
            \A i \in 1..(Len(groups) - 1) : groups[q[i]].amount >= groups[q[i + 1]].amount}}

ByCategory(d) == SortedByAmountDesc(GroupSums(d))

\* -------------------------------------------------------------- handlers
\* faulty variant: the validation tests amount < 0, so an amount of 0 is saved
SubmitHandlerAcceptsZero(d, f, frm) ==
    IF frm.amount < 0
    THEN [df |-> d, file |-> f, msg |-> "error"]
    ELSE LET out == AddExpense(d, frm.date, frm.category, frm.amount, frm.note)
         IN  [df |-> out, file |-> Save(out), msg |-> "success"]

\* the "if submitted:" block
SubmitHandler(d, f, frm) ==
    IF frm.amount <= 0
    THEN [df |-> d, file |-> f, msg |-> "error"]
    ELSE LET out == AddExpense(d, frm.date, frm.category, frm.amount, frm.note)
         IN  [df |-> out, file |-> Save(out), msg |-> "success"]

\* faulty variant: the first press already deletes the store
ClearHandlerNoConfirm(confirm, f) ==
    [confirm |-> FALSE, file |-> NoFile, msg |-> "cleared", rerun |-> TRUE]

\* the body of the "Clear ALL data" button
ClearHandler(confirm, f) ==
    IF ~confirm
    THEN [confirm |-> TRUE, file |-> f, msg |-> "warning", rerun |-> FALSE]
    ELSE [confirm |-> FALSE, file |-> NoFile, msg |-> "cleared", rerun |-> TRUE]

\* date.today(), the form's default date
Today == 20240106

\* the add-expense form as a run sees it when it was not submitted
FormDefaults == [date |-> Today, category |-> CATEGORIES[1], amount |-> 0, note |-> <<>>]

\* the part of a run below the add form: the listing, the summary and the
\* "Clear ALL data" button, which exist only when df is not empty
Render(ev, sel, kw, df0, sub) ==
    IF sub.df = <<>>
    THEN [file |-> sub.file, confirm |-> confirm_clear, loaded |-> df0, df |-> sub.df,
          msg |-> sub.msg, sel |-> All, kw |-> <<>>, filtered |-> <<>>, total |-> 0]
    ELSE IF ev = "clear" /\ ClearHandler(confirm_clear, sub.file).rerun
    \* st.experimental_rerun() starts the script again, on the deleted store
    THEN [file |-> ClearHandler(confirm_clear, sub.file).file,
          confirm |-> ClearHandler(confirm_clear, sub.file).confirm,
          loaded |-> Load(ClearHandler(confirm_clear, sub.file).file),
          df |-> Load(ClearHandler(confirm_clear, sub.file).file),
          msg |-> ClearHandler(confirm_clear, sub.file).msg,
          sel |-> All, kw |-> <<>>, filtered |-> <<>>, total |-> 0]
    ELSE [file |-> sub.file,
          confirm |-> IF ev = "clear" THEN ClearHandler(confirm_clear, sub.file).confirm
                      ELSE confirm_clear,
          loaded |-> df0,
          df |-> sub.df,
          msg |-> IF ev = "clear" THEN ClearHandler(confirm_clear, sub.file).msg
                  ELSE sub.msg,
          sel |-> sel,
          kw |-> kw,
          filtered |-> Filtered(SortByDateDesc(sub.df), sel, kw),
          total |-> TotalSpent(sub.df)]

\* the run from the load at the top to the add form's handler
Submitted(ev, frm, sel, kw, df0) ==
    Render(ev, sel, kw, df0,
           IF ev = "submit" THEN SubmitHandler(df0, file, frm)
           ELSE [df |-> df0, file |-> file, msg |-> "none"])

\* faulty variant: a run that is not a clear request forgets the confirm flag
PageDropsPending(ev, frm, sel, kw) ==
    [Submitted(ev, frm, sel, kw, Load(file)) EXCEPT
        !.confirm = IF ev = "clear" THEN @ ELSE FALSE]

\* what one script run leaves behind, the handler of the triggering widget
\* included; widgets a run does not render lose their value
Page(ev, frm, sel, kw) == Submitted(ev, frm, sel, kw, Load(file))

Leave(ev, frm, out) ==
    /\ file' = out.file
    /\ confirm_clear' = out.confirm
    /\ selected_category' = out.sel
    /\ search_note' = out.kw
    /\ event' = ev
    /\ form' = frm
    /\ loaded' = out.loaded
    /\ df' = out.df
    /\ msg' = out.msg
    /\ filtered' = out.filtered
    /\ total_spent' = out.total
    /\ by_category' \in ByCategory(out.df)

Run(ev, frm, sel, kw) == Leave(ev, frm, Page(ev, frm, sel, kw))

\* ---------------------------------------------------------------- inputs
\* the forms a user submits
Forms ==
    {[date |-> 20240105, category |-> CATEGORIES[1], amount |-> 50, note |-> <<" ", "L", "u", "n", "c", "h", " ">>],
     [date |-> 20240106, category |-> CATEGORIES[2], amount |-> 2000, note |-> <<>>],
     [date |-> 20240106, category |-> CATEGORIES[2], amount |-> 50, note |-> <<"N", "A">>],
     [date |-> 20240105, category |-> CATEGORIES[8], amount |-> 6, note |-> <<"7">>],
     [date |-> 20240106, category |-> CATEGORIES[1], amount |-> 0, note |-> <<"x">>]}

\* the category filter values a user selects
Selections == {All, CATEGORIES[1]}

\* the note keywords a user types
Keywords ==
    {<<>>, <<" ", "L", "U", "N", " ">>, <<".">>, <<"z", "*">>}

\* the stores the program is started on: none, and two hand-edited files that
\* mix well-formed rows with rows whose date or amount does not parse
InitFiles ==
    {NoFile,
     FileOf(<<[date |-> <<"2", "0", "2", "4", "-", "0", "1", "-", "0", "6">>, category |-> <<"R", "e", "n", "t">>, amount |-> <<"1", "2", ".", "5", "0">>, note |-> <<"r", "e", "n", "t", " ", "s", "p", "l", "i", "t">>],
              [date |-> <<"2", "0", "2", "4", "-", "0", "1", "-", "0", "6">>, category |-> <<"R", "e", "n", "t">>, amount |-> <<"a", "b", "c">>, note |-> <<>>],
              [date |-> <<"2", "0", "2", "4", "-", "0", "1", "-", "0", "5">>, category |-> <<"F", "o", "o", "d">>, amount |-> <<"1", "2", ".", "5">>, note |-> <<"l", "u", "n", "c", "h">>]>>),
     FileOf(<<[date |-> <<"2", "0", "2", "4", "-", "0", "2", "-", "3", "0">>, category |-> <<"F", "o", "o", "d">>, amount |-> <<"3">>, note |-> <<"x">>],
              [date |-> <<"2", "0", "2", "4", "-", "0", "1", "-", "0", "7">>, category |-> <<"H", "e", "a", "l", "t", "h">>, amount |-> <<"7", ".", "7", "5">>, note |-> <<"N", "A">>],
              [date |-> <<>>, category |-> <<"O", "t", "h", "e", "r">>, amount |-> <<>>, note |-> <<"y">>]>>)}

\* ------------------------------------------------------------ state machine
\* the page as first opened on one of the stores
Init ==
    /\ file \in InitFiles
    /\ confirm_clear = FALSE
    /\ selected_category = All
    /\ search_note = <<>>
    /\ event = "open"
    /\ form = FormDefaults
    /\ loaded = Load(file)
    /\ df = Load(file)
    /\ msg = "none"
    /\ filtered = (IF df # <<>> THEN Filtered(SortByDateDesc(df), All, <<>>) ELSE <<>>)
    /\ total_spent = (IF df # <<>> THEN TotalSpent(df) ELSE 0)
    /\ by_category \in ByCategory(df)

\* "Add Expense" pressed
Submit ==
    \E frm \in Forms :
        /\ frm.amount <= 0 \/ Len(Load(file)) < MaxRows
        /\ Run("submit", frm, selected_category, search_note)

\* a filter widget changed
ChangeFilter ==
    /\ df # <<>>
    /\ \E sel \in Selections, kw \in Keywords :
          /\ <<sel, kw>> # <<selected_category, search_note>>
          /\ Run("filter", FormDefaults, sel, kw)

\* "Clear ALL data" pressed
ClickClear ==
    /\ df # <<>>
    /\ Run("clear", FormDefaults, selected_category, search_note)

\* "Download CSV" pressed
ClickDownload ==
    /\ df # <<>>
    /\ Run("download", FormDefaults, selected_category, search_note)

Next == Submit \/ ChangeFilter \/ ClickClear \/ ClickDownload

Spec == Init /\ [][Next]_vars

\* ------------------------------------------------------------------ claims

\* C1: clear-all takes two requests.  A clear request made with the confirm flag
\* unset leaves the store file as it is, sets the flag and only warns; a clear
\* request made with the flag set deletes the store file, so that load() returns
\* the empty sequence, and unsets the flag.
C1_ClearNeedsTwoRequests ==
    [][event' = "clear" =>
          IF ~confirm_clear
          THEN file' = file /\ Load(file') = loaded' /\ loaded' # <<>> /\ confirm_clear'
          ELSE ~file'.exists /\ Load(file') = <<>> /\ ~confirm_clear']_vars

\* a second clear request has just deleted a store
C1_Witness ==
    event = "clear" /\ msg = "cleared" /\ ~file.exists /\ ~confirm_clear /\ df = <<>>

\* C2: an add with amount <= 0 leaves the store file unchanged, appends nothing
\* to df and reports the validation error, whatever the store holds.
C2_RejectedAddChangesNothing ==
    [][event' = "submit" /\ form'.amount <= 0 =>
          file' = file /\ df' = Load(file) /\ msg' = "error"]_vars

\* an add of amount 0 was rejected on a store that holds records
C2_Witness ==
    event = "submit" /\ form.amount <= 0 /\ msg = "error" /\ Load(file) # <<>>

\* C3: load(save(records)) = records for the records a run ends with (each a
\* calendar date, a category, a numeric amount and a trimmed note).
C3_RoundTrip == Load(Save(df)) = df

\* out is inp without its leading and trailing blanks
IsStripOf(out, inp) ==
    /\ out # <<>> => out[1] # " " /\ out[Len(out)] # " "
    /\ \E i \in 0..(Len(inp) - Len(out)) :
          /\ SubSeq(inp, i + 1, i + Len(out)) = out
          /\ \A k \in (1..i) \cup ((i + Len(out) + 1)..Len(inp)) : inp[k] = " "

\* C4: an accepted add ends with df one longer than the loaded frame, the loaded
\* records first and in their order, the last record being the form's date,
\* category and amount with the note stripped of leading and trailing blanks.
C4_AppendOneNormalized ==
    event = "submit" /\ msg = "success" =>
        /\ Len(df) = Len(loaded) + 1
        /\ SubSeq(df, 1, Len(loaded)) = loaded
        /\ df[Len(df)].date = form.date
        /\ df[Len(df)].category = form.category
        /\ df[Len(df)].amount = form.amount
        /\ IsStripOf(df[Len(df)].note, form.note)

\* a record whose note needed stripping was appended to a frame that held records
C4_Witness ==
    /\ event = "submit" /\ msg = "success"
    /\ loaded # <<>>
    /\ df[Len(df)].note # form.note

\* the data rows of a store whose date and amount cells both parse, in stored order
WellFormedRows(rows) ==
    LET Good(i) == ParseDate(rows[i].date) # {} /\ ParseNumber(rows[i].amount) # {}
    IN  SelectSeq([i \in 1..Len(rows) |-> i], Good)

\* C5: load() returns one record per row whose date and amount both parse, in
\* stored order and with that row's date and amount, and no record for any other
\* row.
C5_LoadKeepsExactlyWellFormedRows ==
    LET good == WellFormedRows(file.rows)
        got == Load(file)
    IN  /\ Len(got) = Len(good)
        /\ \A k \in 1..Len(good) :
              /\ got[k].date \in ParseDate(file.rows[good[k]].date)
              /\ got[k].amount \in ParseNumber(file.rows[good[k]].amount)

\* the store mixes rows that parse with rows that do not
C5_Witness ==
    /\ file.exists
    /\ WellFormedRows(file.rows) # <<>>
    /\ Len(WellFormedRows(file.rows)) < Len(file.rows)
    /\ \E i \in 1..Len(file.rows) :
          ParseDate(file.rows[i].date) # {} /\ ParseNumber(file.rows[i].amount) = {}

\* C6: an accepted add leaves the stored rows as they were and puts one row after
\* them, a confirmed clear removes the store, and no other run changes the store.
C6_RowsOnlyAddedOrCleared ==
    [][IF event' = "submit" /\ msg' = "success"
       THEN /\ file'.exists
            /\ Len(file'.rows) = Len(file.rows) + 1
            /\ SubSeq(file'.rows, 1, Len(file.rows)) = file.rows
       ELSE IF event' = "clear" /\ msg' = "cleared"
       THEN ~file'.exists
       ELSE file' = file]_vars

\* t occurs in s as a run of consecutive characters
HasSubstring(s, t) == \E i \in 0..(Len(s) - Len(t)) : SubSeq(s, i + 1, i + Len(t)) = t

\* C7: the listing holds exactly the displayed records whose category is the
\* selected one (unless "All" is selected) and whose note holds the trimmed
\* keyword as a case-insensitive literal substring (unless the keyword is blank).
C7_FilterIsLiteralConjunction ==
    LET Keep(r) ==
            /\ selected_category = All \/ r.category = selected_category
            /\ Strip(search_note) = <<>>
               \/ HasSubstring(Lower(r.note), Lower(Strip(search_note)))
    IN  df # <<>> => filtered = SelectSeq(SortByDateDesc(df), Keep)

\* the sum of the amount fields of a sequence of rows, taken from the last row back
RECURSIVE AmountSum(_)
AmountSum(rows) ==
    IF rows = <<>> THEN 0
    ELSE AmountSum(SubSeq(rows, 1, Len(rows) - 1)) + rows[Len(rows)].amount

\* C8: the totals of the by-category table add up to the total spent, and the
\* total spent is the sum of the amounts of all records of df, whatever filter is
\* active (0 for the empty frame).
C8_TotalsAgree ==
    /\ TotalSpent(<<>>) = 0
    /\ df # <<>> => /\ total_spent = AmountSum(df)
                    /\ AmountSum(by_category) = total_spent

\* a filter hides records of a frame that has several categories
C8_Witness ==
    /\ Len(by_category) >= 2
    /\ Len(filtered) < Len(df)
    /\ filtered # <<>>
    /\ total_spent > AmountSum(filtered)

\* the position of the first record of category c
FirstOf(d, c) == CHOOSE i \in 1..Len(d) : d[i].category = c /\ \A j \in 1..(i - 1) : d[j].category # c

\* the by-category table has one row per category of df, each with the sum of
\* that category's amounts, in order of non-increasing total
OneRowPerCategoryDescending ==
    /\ \A i, j \in 1..Len(by_category) :
          i # j => by_category[i].category # by_category[j].category
    /\ {by_category[i].category : i \in 1..Len(by_category)}
          = {df[i].category : i \in 1..Len(df)}
    /\ \A i \in 1..Len(by_category) :
          LET Mine(r) == r.category = by_category[i].category
          IN  by_category[i].amount = AmountSum(SelectSeq(df, Mine))
    /\ \A i \in 1..(Len(by_category) - 1) :
          by_category[i].amount >= by_category[i + 1].amount

\* C9 as stated: one row per category in order of non-increasing total, rows with
\* equal totals in the order in which their categories first occur in df.
C9_TiesInInputOrder ==
    /\ OneRowPerCategoryDescending
    /\ \A i, j \in 1..Len(by_category) :
          i < j /\ by_category[i].amount = by_category[j].amount
              => FirstOf(df, by_category[i].category) < FirstOf(df, by_category[j].category)

\* C9 as amended: one row per category present, each with its category's sum, in
\* order of non-increasing total; nothing is said of rows with equal totals.
C9_OnePerCategoryDescending == OneRowPerCategoryDescending

\* two categories with different totals, put in the other order than the
\* ascending category order in which the groups are formed
C9_Witness ==
    /\ Len(by_category) >= 2
    /\ by_category[1].amount > by_category[2].amount
    /\ StrLess(by_category[2].category, by_category[1].category)

\* C10: once set, the confirm flag stays set through every run that is not a clear
\* request (adds, accepted or rejected, and filter changes included), and the next
\* clear request deletes the whole store at once, with no new warning.
C10_PendingOutlivesOtherRuns ==
    [][confirm_clear =>
          IF event' = "clear"
          THEN msg' = "cleared" /\ ~file'.exists /\ df' = <<>>
          ELSE confirm_clear']_vars

\* a record was added while the confirm flag was set
C10_Witness ==
    confirm_clear /\ event = "submit" /\ msg = "success" /\ Len(df) >= 2

====
